---- MODULE Spec2Model ----
(***************************************************************************)
(* A model of the etcd3 client of src/src/client.rs (EtcdClient) and of    *)
(* its blocking wrapper, run by several clients against one store.         *)
(*                                                                         *)
(* A Rust `str` is a sequence of Unicode scalar values; a key or a value   *)
(* on the wire and in the store is a sequence of bytes (0..255).  The      *)
(* store is a function from the keys present to their values.              *)
(*                                                                         *)
(* Every async operation of the client is a call step (the code up to its  *)
(* first `.await`), a step of the store that serves the request in flight  *)
(* (or of the RPC layer that fails it), and a step that resumes the client *)
(* on the response.                                                        *)
(***************************************************************************)
EXTENDS Integers, Sequences, FiniteSets, TLC

VARIABLES
    store,  \* the remote store: the keys present, each with its value
    pc,     \* per client: "idle", "req" (request in flight), "resp" (response in flight)
    call,   \* per client: the operation called last and its arguments
    req,    \* per client: the request sent last
    resp,   \* per client: the response to it
    ret,    \* per client: the result the call returned
    log,    \* per client: the requests the call has sent so far
    lastw,  \* history: per key, the call whose request wrote or deleted it last
    seen,   \* history: per client, the entry and the last write of the key of
            \* its request at the instant the store served it
    sync    \* per client: the thread that calls it through a SyncEtcdClient,
            \* inside block_on or back from it with its result

vars == <<store, pc, call, req, resp, ret, log, lastw, seen, sync>>

(***************************************************************************)
(* Bounds of the model.                                                    *)
(***************************************************************************)
\* the longest key list given to bulk_put and delete by the concurrent clients
MaxKeys == 2
\* the longest prefix and key of the prefix specification, in characters
MaxStrLen == 2
\* the most entries the store of the prefix specification holds at first
MaxStored == 2
\* the number of whole batches beyond which the bulk specification does not go
MaxBatches == 2

\* the chunk size of bulk_put
BatchSize == 1000

Clients == {"c1", "c2"}

(***************************************************************************)
(* Strings and bytes.                                                      *)
(***************************************************************************)
Byte == 0..255

Last(s) == s[Len(s)]

Min(a, b) == IF a <= b THEN a ELSE b

\* the UTF-8 encoding of one Unicode scalar value
EncodeChar(c) ==
    IF c < 128 THEN <<c>>
    ELSE IF c < 2048 THEN <<192 + (c \div 64), 128 + (c % 64)>>
    ELSE IF c < 65536
         THEN <<224 + (c \div 4096), 128 + ((c \div 64) % 64), 128 + (c % 64)>>
         ELSE <<240 + (c \div 262144), 128 + ((c \div 4096) % 64),
                128 + ((c \div 64) % 64), 128 + (c % 64)>>

RECURSIVE AsBytes(_)
\* str::as_bytes / Into<Vec<u8>> for &str: the UTF-8 bytes of a string
AsBytes(s) ==
    IF s = <<>> THEN <<>> ELSE EncodeChar(Head(s)) \o AsBytes(Tail(s))

IsCont(b) == b >= 128 /\ b <= 191

\* the number of bytes of the UTF-8 sequence that starts with byte b; 0: none does
SeqLen(b) ==
    IF b < 128 THEN 1
    ELSE IF b >= 194 /\ b <= 223 THEN 2
    ELSE IF b >= 224 /\ b <= 239 THEN 3
    ELSE IF b >= 240 /\ b <= 244 THEN 4
    ELSE 0

\* whether the first n bytes of b are one well-formed UTF-8 sequence
WellFormed(b, n) ==
    /\ n > 0
    /\ Len(b) >= n
    /\ \A i \in 2..n : IsCont(b[i])
    /\ (b[1] = 224 => b[2] >= 160)
    /\ (b[1] = 237 => b[2] <= 159)
    /\ (b[1] = 240 => b[2] >= 144)
    /\ (b[1] = 244 => b[2] <= 143)

\* the scalar value of the well-formed sequence of n bytes at the head of b
DecodeChar(b, n) ==
    IF n = 1 THEN b[1]
    ELSE IF n = 2 THEN (b[1] - 192) * 64 + (b[2] - 128)
    ELSE IF n = 3 THEN (b[1] - 224) * 4096 + (b[2] - 128) * 64 + (b[3] - 128)
    ELSE (b[1] - 240) * 262144 + (b[2] - 128) * 4096 + (b[3] - 128) * 64
         + (b[4] - 128)

RECURSIVE FromUtf8(_)
\* String::from_utf8: [ok |-> TRUE, s |-> the string], or ok = FALSE on bytes
\* that are not UTF-8 (on which the caller's unwrap() panics)
FromUtf8(b) ==
    IF b = <<>> THEN [ok |-> TRUE, s |-> <<>>]
    ELSE LET n == SeqLen(b[1]) IN
         IF ~WellFormed(b, n) THEN [ok |-> FALSE, s |-> <<>>]
         ELSE LET rest == FromUtf8(SubSeq(b, n + 1, Len(b))) IN
              [ok |-> rest.ok,
               s  |-> IF rest.ok THEN <<DecodeChar(b, n)>> \o rest.s ELSE <<>>]

\* byte-lexicographic order of keys
BytesLess(a, b) ==
    \E i \in 1..(Min(Len(a), Len(b)) + 1) :
        /\ \A j \in 1..(i - 1) : a[j] = b[j]
        /\ \/ i > Len(a) /\ i <= Len(b)
           \/ i <= Len(a) /\ i <= Len(b) /\ a[i] < b[i]

\* p is a byte-prefix of k
IsPrefix(p, k) == Len(p) <= Len(k) /\ SubSeq(k, 1, Len(p)) = p

\* range_end without the increment
PrefixRangeEndSame(key) == key

\* range_end of get_prefix and delete_prefix: a copy of the key with its last
\* byte, when there is one, incremented (u8 addition)
PrefixRangeEnd(key) ==
    IF key = <<>> THEN key
    ELSE [key EXCEPT ![Len(key)] = (@ + 1) % 256]

\* `*byte += 1` on 0xFF: with overflow checks the addition panics, without
\* them it wraps
Overflows(key) == key # <<>> /\ Last(key) = 255

(***************************************************************************)
(* The messages of the KV service (etcdserverpb).                          *)
(***************************************************************************)
NoReq ==
    [rpc |-> "none", key |-> <<>>, value |-> <<>>, range_end |-> <<>>,
     compare |-> <<>>, success |-> <<>>, failure |-> <<>>]

NoResp == [status |-> "none", kvs |-> <<>>, succeeded |-> FALSE]

ErrResp == [status |-> "err", kvs |-> <<>>, succeeded |-> FALSE]

\* RequestOp { request: Some(Request::RequestPut(PutRequest { key, value, .. })) }
OpPut(key, value) ==
    [op |-> "put", key |-> key, value |-> value, range_end |-> <<>>]

\* RequestOp { request: Some(Request::RequestDeleteRange(..)) }
OpDeleteRange(key, range_end) ==
    [op |-> "delete_range", key |-> key, value |-> <<>>, range_end |-> range_end]

(***************************************************************************)
(* The requests the client builds and what it makes of the responses.      *)
(***************************************************************************)
\* put that leaves the value of the request empty
PutReqNoValue(k, v) == [NoReq EXCEPT !.rpc = "put", !.key = AsBytes(k)]

\* put: the PutRequest
PutReq(k, v) ==
    [NoReq EXCEPT !.rpc = "put", !.key = AsBytes(k), !.value = AsBytes(v)]

RECURSIVE ChunksExact(_, _)
\* slice::chunks_exact(n): the slices of exactly n elements, the rest left out
ChunksExact(keys, n) ==
    IF Len(keys) < n THEN <<>>
    ELSE <<SubSeq(keys, 1, n)>> \o ChunksExact(SubSeq(keys, n + 1, Len(keys)), n)

RECURSIVE Chunks(_, _)
\* slice::chunks(n): consecutive slices of n elements, the last one shorter
Chunks(keys, n) ==
    IF keys = <<>> THEN <<>>
    ELSE <<SubSeq(keys, 1, Min(n, Len(keys)))>>
         \o Chunks(SubSeq(keys, n + 1, Len(keys)), n)

\* bulk_put with chunks of half the size
BulkChunksHalf(keys) == Chunks(keys, BatchSize \div 2)

\* bulk_put: keys.chunks(1000)
BulkChunks(keys) == Chunks(keys, BatchSize)

\* bulk_put that stores each key as its own value
BulkTxnKeyValue(chunk) ==
    [NoReq EXCEPT !.rpc = "txn",
                  !.success = [i \in 1..Len(chunk) |->
                                 OpPut(AsBytes(chunk[i]), AsBytes(chunk[i]))]]

\* bulk_put: the TxnRequest of one chunk, a put of the empty value per key
BulkTxn(chunk) ==
    [NoReq EXCEPT !.rpc = "txn",
                  !.success = [i \in 1..Len(chunk) |-> OpPut(AsBytes(chunk[i]), <<>>)]]

\* get that sends a put of the empty value to the key
GetReqAsPut(k) == [NoReq EXCEPT !.rpc = "put", !.key = AsBytes(k)]

\* get: the RangeRequest of one key
GetReq(k) == [NoReq EXCEPT !.rpc = "range", !.key = AsBytes(k)]

\* get that decodes the key of the entry in place of its value
GetValueKey(r) ==
    IF r.kvs = <<>> THEN [tag |-> "Ok", opt |-> <<>>, map |-> {}, key |-> <<>>]
    ELSE LET d == FromUtf8(Last(r.kvs).key) IN
         IF d.ok THEN [tag |-> "Ok", opt |-> <<d.s>>, map |-> {}, key |-> <<>>]
         ELSE [tag |-> "Panic", opt |-> <<>>, map |-> {}, key |-> <<>>]

\* get: resp.kvs.pop().map(|kv| String::from_utf8(kv.value).unwrap())
GetValue(r) ==
    IF r.kvs = <<>> THEN [tag |-> "Ok", opt |-> <<>>, map |-> {}, key |-> <<>>]
    ELSE LET d == FromUtf8(Last(r.kvs).value) IN
         IF d.ok THEN [tag |-> "Ok", opt |-> <<d.s>>, map |-> {}, key |-> <<>>]
         ELSE [tag |-> "Panic", opt |-> <<>>, map |-> {}, key |-> <<>>]

\* get_prefix: the RangeRequest over [key, range_end)
GetPrefixReq(prefix) ==
    [NoReq EXCEPT !.rpc = "range", !.key = AsBytes(prefix),
                  !.range_end = PrefixRangeEnd(AsBytes(prefix))]

\* get_prefix: the kvs collected into a HashMap<String, String>, as its set of
\* (key, value) pairs; of two kvs of one key the later one stays
GetPrefixMap(r) ==
    IF \E i \in 1..Len(r.kvs) :
           ~FromUtf8(r.kvs[i].key).ok \/ ~FromUtf8(r.kvs[i].value).ok
    THEN [tag |-> "Panic", opt |-> <<>>, map |-> {}, key |-> <<>>]
    ELSE [tag |-> "Ok", opt |-> <<>>, key |-> <<>>,
          map |-> {<<FromUtf8(r.kvs[i].key).s, FromUtf8(r.kvs[i].value).s>> :
                     i \in {j \in 1..Len(r.kvs) :
                              \A m \in (j + 1)..Len(r.kvs) :
                                  r.kvs[m].key # r.kvs[j].key}}]

\* delete that starts at the second key
DeleteTxnSkipFirst(keys) ==
    [NoReq EXCEPT !.rpc = "txn",
                  !.success = [i \in 1..(Len(keys) - 1) |->
                                 OpDeleteRange(AsBytes(keys[i + 1]), <<>>)]]

\* delete whose transaction compares the first key with the empty value
DeleteTxnIfFirst(keys) ==
    [NoReq EXCEPT !.rpc = "txn",
                  !.compare = IF keys = <<>> THEN <<>>
                              ELSE <<[key |-> AsBytes(keys[1]), target |-> "VALUE",
                                      result |-> "EQUAL", value |-> <<>>]>>,
                  !.success = [i \in 1..Len(keys) |->
                                 OpDeleteRange(AsBytes(keys[i]), <<>>)]]

\* delete: one TxnRequest with a DeleteRange of empty range_end per key
DeleteTxn(keys) ==
    [NoReq EXCEPT !.rpc = "txn",
                  !.success = [i \in 1..Len(keys) |->
                                 OpDeleteRange(AsBytes(keys[i]), <<>>)]]

\* delete_prefix: the DeleteRangeRequest over [key, range_end)
DeletePrefixReq(prefix) ==
    [NoReq EXCEPT !.rpc = "delete_range", !.key = AsBytes(prefix),
                  !.range_end = PrefixRangeEnd(AsBytes(prefix))]

\* swap with the compare left out: the put is unconditional
SwapTxnNoCompare(k, old_v, new_v) ==
    [NoReq EXCEPT !.rpc = "txn",
                  !.success = <<OpPut(AsBytes(k), AsBytes(new_v))>>]

\* swap with the put in the failure branch too
SwapTxnFailurePut(k, old_v, new_v) ==
    [NoReq EXCEPT !.rpc = "txn",
                  !.compare = <<[key |-> AsBytes(k), target |-> "VALUE",
                                 result |-> "EQUAL", value |-> AsBytes(old_v)]>>,
                  !.success = <<OpPut(AsBytes(k), AsBytes(new_v))>>,
                  !.failure = <<OpPut(AsBytes(k), AsBytes(new_v))>>]

\* swap: the TxnRequest with the compare (value of key EQUAL old_v) and the put
SwapTxn(k, old_v, new_v) ==
    [NoReq EXCEPT !.rpc = "txn",
                  !.compare = <<[key |-> AsBytes(k), target |-> "VALUE",
                                 result |-> "EQUAL", value |-> AsBytes(old_v)]>>,
                  !.success = <<OpPut(AsBytes(k), AsBytes(new_v))>>]

ResOk == [tag |-> "Ok", opt |-> <<>>, map |-> {}, key |-> <<>>]

NoRes == [tag |-> "None", opt |-> <<>>, map |-> {}, key |-> <<>>]

\* Error::Grpc(status): the `?` on a failed RPC
ResErrRpc == [tag |-> "ErrRpc", opt |-> <<>>, map |-> {}, key |-> <<>>]

\* Error::Swap(key)
ResErrSwap(k) == [tag |-> "ErrSwap", opt |-> <<>>, map |-> {}, key |-> k]

\* swap that returns Ok(()) without reading resp.succeeded
SwapResultOk(r, k) == ResOk

\* swap: Ok(()) when resp.succeeded, Err(Error::Swap(k)) otherwise
SwapResult(r, k) == IF r.succeeded THEN ResOk ELSE ResErrSwap(k)

(***************************************************************************)
(* The store behind the RPC stub: Put, Range, DeleteRange and Txn, each    *)
(* served atomically.                                                      *)
(***************************************************************************)
\* key k lies in the range (key, range_end): [key, range_end), and the single
\* key `key` when range_end is empty
InRange(k, key, range_end) ==
    IF range_end = <<>> THEN k = key
    ELSE (k = key \/ BytesLess(key, k)) /\ BytesLess(k, range_end)

StorePut(st, key, value) ==
    [x \in DOMAIN st \cup {key} |-> IF x = key THEN value ELSE st[x]]

StoreDeleteRange(st, key, range_end) ==
    [x \in {y \in DOMAIN st : ~InRange(y, key, range_end)} |-> st[x]]

RECURSIVE SortKeys(_)
\* the keys of S in ascending byte order
SortKeys(S) ==
    IF S = {} THEN <<>>
    ELSE LET m == CHOOSE x \in S : \A y \in S : y = x \/ BytesLess(x, y) IN
         <<m>> \o SortKeys(S \ {m})

\* Range: the entries of the range, in ascending key order
StoreRange(st, key, range_end) ==
    LET ks == SortKeys({y \in DOMAIN st : InRange(y, key, range_end)}) IN
    [i \in 1..Len(ks) |-> [key |-> ks[i], value |-> st[ks[i]]]]

\* a Compare of target VALUE and result EQUAL: the key exists and holds the value
CompareHolds(st, cmp) == cmp.key \in DOMAIN st /\ st[cmp.key] = cmp.value

\* operation o of a transaction branch writes or deletes key x
Covers(o, x) ==
    IF o.op = "put" THEN o.key = x ELSE InRange(x, o.key, o.range_end)

RECURSIVE PutMap(_)
\* what a list of puts leaves at the keys it writes: for each key the value of
\* the last put of it (the list is halved, and the later half overrides)
PutMap(ops) ==
    IF ops = <<>> THEN <<>>
    ELSE IF Len(ops) = 1 THEN [x \in {ops[1].key} |-> ops[1].value]
    ELSE LET h == Len(ops) \div 2
             l == PutMap(SubSeq(ops, 1, h))
             r == PutMap(SubSeq(ops, h + 1, Len(ops)))
         IN [x \in DOMAIN l \cup DOMAIN r |-> IF x \in DOMAIN r THEN r[x] ELSE l[x]]

\* the operations of one branch of a transaction, applied in order: a key is
\* left as the last operation that covers it leaves it
ApplyOps(st, ops) ==
    IF \A i \in 1..Len(ops) : ops[i].op = "put"
    THEN LET m == PutMap(ops) IN
         [x \in DOMAIN st \cup DOMAIN m |-> IF x \in DOMAIN m THEN m[x] ELSE st[x]]
    ELSE LET puts == {ops[i].key : i \in {j \in 1..Len(ops) : ops[j].op = "put"}}
             last(x) == LET I == {i \in 1..Len(ops) : Covers(ops[i], x)} IN
                        IF I = {} THEN 0 ELSE CHOOSE i \in I : \A j \in I : j <= i
             keep == {x \in DOMAIN st \cup puts :
                        LET l == last(x) IN
                        IF l = 0 THEN x \in DOMAIN st ELSE ops[l].op = "put"}
         IN [x \in keep |->
               LET l == last(x) IN IF l = 0 THEN st[x] ELSE ops[l].value]

\* Txn: every compare evaluated, then exactly one branch applied
TxnSucceeds(st, r) == \A i \in 1..Len(r.compare) : CompareHolds(st, r.compare[i])

\* the store after serving request r
StoreAfter(st, r) ==
    IF r.rpc = "put" THEN StorePut(st, r.key, r.value)
    ELSE IF r.rpc = "delete_range" THEN StoreDeleteRange(st, r.key, r.range_end)
    ELSE IF r.rpc = "txn"
         THEN ApplyOps(st, IF TxnSucceeds(st, r) THEN r.success ELSE r.failure)
    ELSE st

\* the response to request r served on store st
Response(st, r) ==
    [status    |-> "ok",
     kvs       |-> IF r.rpc = "range" THEN StoreRange(st, r.key, r.range_end)
                   ELSE <<>>,
     succeeded |-> r.rpc = "txn" /\ TxnSucceeds(st, r)]

(***************************************************************************)
(* The calls of a client: the code of each operation up to its first RPC.  *)
(***************************************************************************)
NoCall ==
    [op |-> "none", k |-> <<>>, v |-> <<>>, old_v |-> <<>>, new_v |-> <<>>,
     keys |-> <<>>, prefix |-> <<>>]

NoWrite == [op |-> "none", v |-> <<>>]

NoSeen == [pre |-> <<>>, w |-> NoWrite]

\* the key a request is about: the key of its compare, else of its first
\* operation, else its own
ReqKey(r) ==
    IF r.rpc # "txn" THEN r.key
    ELSE IF r.compare # <<>> THEN r.compare[1].key
    ELSE IF r.success # <<>> THEN r.success[1].key
    ELSE <<>>

\* the entry of key k in store st: <<>> when absent, <<value>> when present
Entry(st, k) == IF k \in DOMAIN st THEN <<st[k]>> ELSE <<>>

\* client c sends request r as the first RPC of call cl
Issue(c, cl, r) ==
    /\ pc[c] = "idle"
    /\ pc' = [pc EXCEPT ![c] = "req"]
    /\ call' = [call EXCEPT ![c] = cl]
    /\ req' = [req EXCEPT ![c] = r]
    /\ resp' = [resp EXCEPT ![c] = NoResp]
    /\ ret' = [ret EXCEPT ![c] = NoRes]
    /\ log' = [log EXCEPT ![c] = <<r>>]
    /\ seen' = [seen EXCEPT ![c] = NoSeen]
    /\ UNCHANGED <<store, lastw>>

\* client c's call cl returns result r without an RPC
ReturnAtOnce(c, cl, r) ==
    /\ pc[c] = "idle"
    /\ call' = [call EXCEPT ![c] = cl]
    /\ req' = [req EXCEPT ![c] = NoReq]
    /\ resp' = [resp EXCEPT ![c] = NoResp]
    /\ ret' = [ret EXCEPT ![c] = r]
    /\ log' = [log EXCEPT ![c] = <<>>]
    /\ seen' = [seen EXCEPT ![c] = NoSeen]
    /\ UNCHANGED <<store, pc, lastw>>

Put(c, k, v) ==
    Issue(c, [NoCall EXCEPT !.op = "put", !.k = k, !.v = v], PutReq(k, v))

\* bulk_put that sends the transactions of all its chunks without awaiting any
BulkPutAll(c, keys) ==
    LET cl == [NoCall EXCEPT !.op = "bulk_put", !.keys = keys]
        rs == [j \in 1..Len(BulkChunks(keys)) |-> BulkTxn(BulkChunks(keys)[j])]
    IN IF rs = <<>> THEN ReturnAtOnce(c, cl, ResOk)
       ELSE /\ pc[c] = "idle"
            /\ pc' = [pc EXCEPT ![c] = "req"]
            /\ call' = [call EXCEPT ![c] = cl]
            /\ req' = [req EXCEPT ![c] = Last(rs)]
            /\ resp' = [resp EXCEPT ![c] = NoResp]
            /\ ret' = [ret EXCEPT ![c] = NoRes]
            /\ log' = [log EXCEPT ![c] = rs]
            /\ seen' = [seen EXCEPT ![c] = NoSeen]
            /\ UNCHANGED <<store, lastw>>

BulkPut(c, keys) ==
    LET cl == [NoCall EXCEPT !.op = "bulk_put", !.keys = keys] IN
    IF BulkChunks(keys) = <<>> THEN ReturnAtOnce(c, cl, ResOk)
    ELSE Issue(c, cl, BulkTxn(BulkChunks(keys)[1]))

Get(c, k) == Issue(c, [NoCall EXCEPT !.op = "get", !.k = k], GetReq(k))

\* `*byte += 1` on a last byte of 0xFF panics in a build with overflow checks
\* and wraps in a build without them
GetPrefix(c, prefix) ==
    LET cl == [NoCall EXCEPT !.op = "get_prefix", !.prefix = prefix] IN
    \E panics \in IF Overflows(AsBytes(prefix)) THEN BOOLEAN ELSE {FALSE} :
        IF panics THEN ReturnAtOnce(c, cl, [ResOk EXCEPT !.tag = "Panic"])
        ELSE Issue(c, cl, GetPrefixReq(prefix))

Delete(c, keys) ==
    Issue(c, [NoCall EXCEPT !.op = "delete", !.keys = keys], DeleteTxn(keys))

DeletePrefix(c, prefix) ==
    LET cl == [NoCall EXCEPT !.op = "delete_prefix", !.prefix = prefix] IN
    \E panics \in IF Overflows(AsBytes(prefix)) THEN BOOLEAN ELSE {FALSE} :
        IF panics THEN ReturnAtOnce(c, cl, [ResOk EXCEPT !.tag = "Panic"])
        ELSE Issue(c, cl, DeletePrefixReq(prefix))

Swap(c, k, old_v, new_v) ==
    Issue(c, [NoCall EXCEPT !.op = "swap", !.k = k, !.old_v = old_v,
                            !.new_v = new_v],
          SwapTxn(k, old_v, new_v))

(***************************************************************************)
(* The store serves the request in flight, or the RPC fails.               *)
(***************************************************************************)
\* the operations request r applies on store st
Applied(st, r) ==
    IF r.rpc = "put" THEN <<OpPut(r.key, r.value)>>
    ELSE IF r.rpc = "delete_range" THEN <<OpDeleteRange(r.key, r.range_end)>>
    ELSE IF r.rpc = "txn" THEN (IF TxnSucceeds(st, r) THEN r.success ELSE r.failure)
    ELSE <<>>

\* the keys request r writes or deletes on store st
Touched(st, r) ==
    LET ops == Applied(st, r)
        P == {i \in 1..Len(ops) : ops[i].op = "put"}
        D == (1..Len(ops)) \ P
    IN {ops[i].key : i \in P}
       \cup {x \in DOMAIN st \cup {ops[i].key : i \in D} :
               \E i \in D : Covers(ops[i], x)}

\* the keys of a key list, as the store holds them
KeySet(keys) == {AsBytes(keys[i]) : i \in 1..Len(keys)}

\* the keys call cl is to write or delete when it is served on store st: the
\* key of a put, of a swap whose old_v the key holds, the keys listed in a
\* delete, the keys under the prefix of a delete_prefix
Intended(cl, st) ==
    IF cl.op = "put" THEN {AsBytes(cl.k)}
    ELSE IF cl.op = "swap"
         THEN (IF Entry(st, AsBytes(cl.k)) = <<AsBytes(cl.old_v)>>
               THEN {AsBytes(cl.k)} ELSE {})
    ELSE IF cl.op = "delete" THEN KeySet(cl.keys)
    ELSE IF cl.op = "delete_prefix"
         THEN {x \in DOMAIN st : IsPrefix(AsBytes(cl.prefix), x)}
    ELSE {}

\* what the caller asked to be stored by the call cl
Written(cl) ==
    [op |-> cl.op,
     v  |-> IF cl.op = "put" THEN cl.v ELSE IF cl.op = "swap" THEN cl.new_v ELSE <<>>]

\* the store evaluates the request of client c in one atomic step
Serve(c) ==
    /\ pc[c] = "req"
    /\ seen' = [seen EXCEPT ![c] =
                  [pre |-> Entry(store, ReqKey(req[c])),
                   w   |-> IF ReqKey(req[c]) \in DOMAIN lastw
                           THEN lastw[ReqKey(req[c])] ELSE NoWrite]]
    /\ store' = StoreAfter(store, req[c])
    /\ resp' = [resp EXCEPT ![c] = Response(store, req[c])]
    /\ pc' = [pc EXCEPT ![c] = "resp"]
    /\ lastw' = LET T == Touched(store, req[c]) \cup Intended(call[c], store) IN
                [x \in DOMAIN lastw \cup T |->
                   IF x \in T THEN Written(call[c]) ELSE lastw[x]]
    /\ UNCHANGED <<call, req, ret, log, sync>>

\* the RPC of client c fails (a transport error or an error status): the
\* request has no effect on the store
RpcFail(c) ==
    /\ pc[c] = "req"
    /\ resp' = [resp EXCEPT ![c] = ErrResp]
    /\ pc' = [pc EXCEPT ![c] = "resp"]
    /\ UNCHANGED <<store, call, req, ret, log, lastw, seen, sync>>

(***************************************************************************)
(* The client resumes on the response.                                     *)
(***************************************************************************)
\* the call of client c returns r
Return(c, r) ==
    /\ pc' = [pc EXCEPT ![c] = "idle"]
    /\ ret' = [ret EXCEPT ![c] = r]
    /\ UNCHANGED <<store, call, req, resp, log, lastw, seen>>

\* the result made of the response without the `?` on the RPC's error
ResultUnchecked(cl, r) ==
    IF cl.op = "get" THEN GetValue(r)
    ELSE IF cl.op = "get_prefix" THEN GetPrefixMap(r)
    ELSE IF cl.op = "swap" THEN SwapResult(r, cl.k)
    ELSE ResOk

\* the result of a call whose (last) RPC was answered by r
Result(cl, r) ==
    IF r.status = "err" THEN ResErrRpc
    ELSE IF cl.op = "get" THEN GetValue(r)
    ELSE IF cl.op = "get_prefix" THEN GetPrefixMap(r)
    ELSE IF cl.op = "swap" THEN SwapResult(r, cl.k)
    ELSE ResOk

\* bulk_put: the chunk to send once n transactions have succeeded, if any
NextChunk(keys, n) ==
    IF n < Len(BulkChunks(keys)) THEN <<BulkChunks(keys)[n + 1]>> ELSE <<>>

\* bulk_put that goes on to the next chunk whatever the answer to the last
ContinuesAnyway(cl, r, n) ==
    cl.op = "bulk_put" /\ NextChunk(cl.keys, n) # <<>>

\* bulk_put: the loop goes on after n transactions, the last answered by r
Continues(cl, r, n) ==
    cl.op = "bulk_put" /\ r.status = "ok" /\ NextChunk(cl.keys, n) # <<>>

\* the `.await` of client c completes
Resume(c) ==
    /\ pc[c] = "resp"
    /\ IF Continues(call[c], resp[c], Len(log[c]))
       THEN LET r == BulkTxn(NextChunk(call[c].keys, Len(log[c]))[1]) IN
            /\ req' = [req EXCEPT ![c] = r]
            /\ log' = [log EXCEPT ![c] = Append(@, r)]
            /\ resp' = [resp EXCEPT ![c] = NoResp]
            /\ pc' = [pc EXCEPT ![c] = "req"]
            /\ UNCHANGED <<store, call, ret, lastw, seen>>
       ELSE Return(c, Result(call[c], resp[c]))

(***************************************************************************)
(* The two ways to run an operation: async code awaits the future of the   *)
(* EtcdClient's method; a SyncEtcdClient runs it inside rt.block_on.       *)
(***************************************************************************)
NoSync == [st |-> "none", ret |-> NoRes]

\* step A of client c's operation runs in async code that uses the EtcdClient
\* itself
Async(c, A) ==
    /\ sync[c].st # "blocked"
    /\ A
    /\ UNCHANGED sync

\* block_on that hands the future to the runtime and returns Ok(()) at once
BlockOnDetached(c, A) ==
    /\ A
    /\ sync' = [sync EXCEPT ![c] = [st |-> "returned", ret |-> ResOk]]

\* rt.block_on(async { inner.op(..).await }): step A of the inner client's
\* operation runs on the thread that called; the thread stays in block_on
\* until the operation has returned, and block_on returns what it returned
BlockOn(c, A) ==
    /\ A
    /\ sync' = [sync EXCEPT ![c] =
                  IF pc'[c] = "idle" THEN [st |-> "returned", ret |-> ret'[c]]
                  ELSE [st |-> "blocked", ret |-> NoRes]]

SyncPut(c, k, v) == sync[c].st # "blocked" /\ BlockOn(c, Put(c, k, v))

SyncBulkPut(c, keys) == sync[c].st # "blocked" /\ BlockOn(c, BulkPut(c, keys))

SyncGet(c, k) == sync[c].st # "blocked" /\ BlockOn(c, Get(c, k))

SyncGetPrefix(c, prefix) ==
    sync[c].st # "blocked" /\ BlockOn(c, GetPrefix(c, prefix))

SyncDelete(c, keys) == sync[c].st # "blocked" /\ BlockOn(c, Delete(c, keys))

SyncDeletePrefix(c, prefix) ==
    sync[c].st # "blocked" /\ BlockOn(c, DeletePrefix(c, prefix))

SyncSwap(c, k, old_v, new_v) ==
    sync[c].st # "blocked" /\ BlockOn(c, Swap(c, k, old_v, new_v))

\* block_on polls the future again: the `.await` of the inner client completes
SyncResume(c) == sync[c].st = "blocked" /\ BlockOn(c, Resume(c))

(***************************************************************************)
(* The clients that are not followed step by step: the store serves each   *)
(* of their requests atomically, like any other.                           *)
(***************************************************************************)
\* a request of some other client is served
OtherServe(r) ==
    /\ store' = StoreAfter(store, r)
    /\ lastw' = LET T == Touched(store, r) IN
                [x \in DOMAIN lastw \cup T |->
                   IF x \in T THEN [op |-> "other", v |-> <<>>] ELSE lastw[x]]
    /\ UNCHANGED <<pc, call, req, resp, ret, log, seen, sync>>

(***************************************************************************)
(* Spec: client c1 runs all seven operations against a store that other    *)
(* clients write.                                                          *)
(***************************************************************************)
\* "a" and "ab"
Keys == {<<97>>, <<97, 98>>}

\* "" and "é"
Values == {<<>>, <<233>>}

\* "" and "a"
Prefixes == {<<>>, <<97>>}

\* the sequences over S of length at most n
SeqsUpTo(S, n) == UNION {[1..m -> S] : m \in 0..n}

KeyLists == SeqsUpTo(Keys, MaxKeys)

\* the stores that hold some of the keys ks, each with one of the values vs
Stores(ks, vs) ==
    UNION {[{AsBytes(k) : k \in S} -> {AsBytes(v) : v \in vs}] : S \in SUBSET ks}

\* the clients are connected and idle
InitClients ==
    /\ pc = [c \in Clients |-> "idle"]
    /\ call = [c \in Clients |-> NoCall]
    /\ req = [c \in Clients |-> NoReq]
    /\ resp = [c \in Clients |-> NoResp]
    /\ ret = [c \in Clients |-> NoRes]
    /\ log = [c \in Clients |-> <<>>]
    /\ lastw = <<>>
    /\ seen = [c \in Clients |-> NoSeen]
    /\ sync = [c \in Clients |-> NoSync]

Init ==
    /\ store \in Stores(Keys, Values)
    /\ InitClients

\* the requests of the other clients that write
OtherRequests ==
    {PutReq(k, v) : k \in Keys, v \in Values}
    \cup {DeleteTxn(<<k>>) : k \in Keys}

Next ==
    \/ \E k \in Keys, v \in Values : Async("c1", Put("c1", k, v))
    \/ \E ks \in KeyLists : Async("c1", BulkPut("c1", ks))
    \/ \E k \in Keys : Async("c1", Get("c1", k))
    \/ \E p \in Prefixes : Async("c1", GetPrefix("c1", p))
    \/ \E ks \in KeyLists : Async("c1", Delete("c1", ks))
    \/ \E p \in Prefixes : Async("c1", DeletePrefix("c1", p))
    \/ \E k \in Keys, o \in Values, n \in Values :
           Async("c1", Swap("c1", k, o, n))
    \/ Serve("c1")
    \/ RpcFail("c1")
    \/ Async("c1", Resume("c1"))
    \/ \E r \in OtherRequests : OtherServe(r)

Spec == Init /\ [][Next]_vars

(***************************************************************************)
(* SpecPrefix: one call of get_prefix or delete_prefix, of any prefix of   *)
(* up to MaxStrLen characters, on any store of up to MaxStored entries.    *)
(***************************************************************************)
\* 'a' and 'ÿ' (U+00FF, the bytes C3 BF)
PChars == {97, 255}

PStrings == SeqsUpTo(PChars, MaxStrLen)

\* the value stored with key k at first: "x" followed by k
PValue(k) == <<120>> \o k

PStores ==
    {[x \in {AsBytes(k) : k \in S} |->
        AsBytes(PValue(CHOOSE k \in S : AsBytes(k) = x))] :
       S \in {T \in SUBSET PStrings : Cardinality(T) <= MaxStored}}

InitPrefix ==
    /\ store \in PStores
    /\ InitClients

NextPrefix ==
    \/ \E p \in PStrings :
           call["c1"] = NoCall /\ Async("c1", GetPrefix("c1", p))
    \/ \E p \in PStrings :
           call["c1"] = NoCall /\ Async("c1", DeletePrefix("c1", p))
    \/ Serve("c1")
    \/ RpcFail("c1")
    \/ Async("c1", Resume("c1"))

SpecPrefix == InitPrefix /\ [][NextPrefix]_vars

(***************************************************************************)
(* SpecBulk: one call of bulk_put, of a list of up to MaxBatches whole      *)
(* batches and a part of one more.                                         *)
(***************************************************************************)
\* the key list of n keys: the one-character strings U+0001 .. U+n
BulkList(n) == [i \in 1..n |-> <<i>>]

\* lengths around every multiple of the batch size
BulkLens ==
    {b * BatchSize + d : b \in 0..MaxBatches,
                         d \in {0, 1, BatchSize \div 2, BatchSize - 1}}

\* the stores at first: empty, or holding "x" at the first and the last key of
\* the first batch and at the first key of the second
BulkStores ==
    {<<>>,
     [x \in {AsBytes(<<i>>) : i \in {1, BatchSize, BatchSize + 1}} |-> <<120>>]}

InitBulk ==
    /\ store \in BulkStores
    /\ InitClients

NextBulk ==
    \/ \E n \in BulkLens :
           call["c1"] = NoCall /\ Async("c1", BulkPut("c1", BulkList(n)))
    \/ Serve("c1")
    \/ RpcFail("c1")
    \/ Async("c1", Resume("c1"))

SpecBulk == InitBulk /\ [][NextBulk]_vars

(***************************************************************************)
(* SpecCall: one call of one operation, made by async code on the          *)
(* EtcdClient c1 or by a thread through the SyncEtcdClient c2, on a store  *)
(* no other client writes.                                                 *)
(***************************************************************************)
\* the key lists given to bulk_put: the short ones and those of whole batches
CallLists == KeyLists \cup {BulkList(n) : n \in BulkLens}

CallStores == Stores(Keys, Values) \cup BulkStores

InitCall ==
    /\ store \in CallStores
    /\ InitClients

\* no client has been called yet
NoCallYet == \A c \in Clients : call[c] = NoCall

NextCall ==
    \/ \E k \in Keys, v \in Values : NoCallYet /\ Async("c1", Put("c1", k, v))
    \/ \E ks \in CallLists : NoCallYet /\ Async("c1", BulkPut("c1", ks))
    \/ \E k \in Keys : NoCallYet /\ Async("c1", Get("c1", k))
    \/ \E p \in Prefixes : NoCallYet /\ Async("c1", GetPrefix("c1", p))
    \/ \E ks \in KeyLists : NoCallYet /\ Async("c1", Delete("c1", ks))
    \/ \E p \in Prefixes : NoCallYet /\ Async("c1", DeletePrefix("c1", p))
    \/ \E k \in Keys, o \in Values, n \in Values :
           NoCallYet /\ Async("c1", Swap("c1", k, o, n))
    \/ \E k \in Keys, v \in Values : NoCallYet /\ SyncPut("c2", k, v)
    \/ \E ks \in CallLists : NoCallYet /\ SyncBulkPut("c2", ks)
    \/ \E k \in Keys : NoCallYet /\ SyncGet("c2", k)
    \/ \E p \in Prefixes : NoCallYet /\ SyncGetPrefix("c2", p)
    \/ \E ks \in KeyLists : NoCallYet /\ SyncDelete("c2", ks)
    \/ \E p \in Prefixes : NoCallYet /\ SyncDeletePrefix("c2", p)
    \/ \E k \in Keys, o \in Values, n \in Values :
           NoCallYet /\ SyncSwap("c2", k, o, n)
    \/ \E c \in Clients : Serve(c)
    \/ \E c \in Clients : RpcFail(c)
    \/ Async("c1", Resume("c1"))
    \/ SyncResume("c2")

SpecCall == InitCall /\ [][NextCall]_vars

(***************************************************************************)
(* SpecSwap: two clients, the EtcdClient c1 used by async code and the     *)
(* SyncEtcdClient c2, call swap once each on one key, in any interleaving; *)
(* nobody else writes.                                                     *)
(***************************************************************************)
\* "a"
SwapKey == <<97>>

\* "", "é" and "x"
SwapValues == Values \cup {<<120>>}

InitSwap ==
    /\ store \in Stores({SwapKey}, SwapValues)
    /\ InitClients

NextSwap ==
    \/ \E o \in SwapValues, n \in SwapValues :
           call["c1"] = NoCall /\ Async("c1", Swap("c1", SwapKey, o, n))
    \/ \E o \in SwapValues, n \in SwapValues :
           call["c2"] = NoCall /\ SyncSwap("c2", SwapKey, o, n)
    \/ \E c \in Clients : Serve(c)
    \/ \E c \in Clients : RpcFail(c)
    \/ Async("c1", Resume("c1"))
    \/ SyncResume("c2")

SpecSwap == InitSwap /\ [][NextSwap]_vars

(***************************************************************************)
(* Properties.                                                             *)
(***************************************************************************)
\* client c has returned from a call of operation op
Done(c, op) == pc[c] = "idle" /\ call[c].op = op /\ ret[c].tag # "None"

\* the step hands the request of client c to the store or fails it
Answered(c) == pc[c] = "req" /\ pc'[c] = "resp"

\* the step returns the call of client c
Returns(c) == pc[c] = "resp" /\ pc'[c] = "idle"

\* the step is client c calling op and sending its first request
Calls(c, op) == pc[c] = "idle" /\ pc'[c] = "req" /\ call'[c].op = op

\* C1: a swap that the store evaluated returned Ok exactly when the key held
\* old_v at the instant of the evaluation; a key last written by a successful
\* swap holds its new_v; and a get served with no write to the key since a
\* successful swap returns Some(new_v).
C1_SwapIffEqual ==
    /\ \A c \in Clients :
           Done(c, "swap") /\ ret[c].tag # "ErrRpc" =>
               (ret[c] = ResOk <=> seen[c].pre = <<AsBytes(call[c].old_v)>>)
    /\ \A x \in DOMAIN lastw :
           lastw[x].op = "swap" => Entry(store, x) = <<AsBytes(lastw[x].v)>>
    /\ \A c \in Clients :
           Done(c, "get") /\ ret[c].tag # "ErrRpc" /\ seen[c].w.op = "swap" =>
               ret[c] = [ResOk EXCEPT !.opt = <<seen[c].w.v>>]

\* a swap of two different values has succeeded and the store holds the new one
C1_Witness ==
    \E c \in Clients :
        /\ Done(c, "swap") /\ ret[c] = ResOk
        /\ call[c].old_v # call[c].new_v
        /\ seen[c].pre = <<AsBytes(call[c].old_v)>>
        /\ Entry(store, AsBytes(call[c].k)) = <<AsBytes(call[c].new_v)>>

\* C2: when the compare of a swap does not hold (another value, or no key,
\* whatever old_v is) the step that answers it leaves the whole store as it
\* was, as do the steps that send the request and return the call, and the
\* call returns Error::Swap with its key; when the RPC fails the call returns
\* the RPC's error, not Error::Swap.
C2_SwapFailed ==
    [][\A c \in Clients :
        /\ Calls(c, "swap") => store' = store
        /\ call[c].op = "swap" =>
          /\ (Answered(c) /\ Entry(store, AsBytes(call[c].k))
                                # <<AsBytes(call[c].old_v)>>)
                => store' = store
          /\ Returns(c) => store' = store
          /\ (Returns(c) /\ resp[c].status = "ok"
                /\ seen[c].pre # <<AsBytes(call[c].old_v)>>)
                => ret'[c] = ResErrSwap(call[c].k)
          /\ (Returns(c) /\ resp[c].status = "err") => ret'[c] = ResErrRpc]_vars

\* a swap with the empty old_v on a key that does not exist has failed
C2_Witness ==
    \E c \in Clients :
        /\ Done(c, "swap") /\ ret[c] = ResErrSwap(call[c].k)
        /\ call[c].old_v = <<>>
        /\ seen[c].pre = <<>>
        /\ AsBytes(call[c].k) \notin DOMAIN store

C6_PutThenGet ==
    \A c \in Clients :
        Done(c, "get") /\ ret[c].tag # "ErrRpc" /\ seen[c].w.op = "put" =>
            ret[c] = [ResOk EXCEPT !.opt = <<seen[c].w.v>>]

\* a get has returned Some("é") after a put of "é"
C6_Witness ==
    \E c \in Clients :
        /\ Done(c, "get") /\ call[c].k # <<>>
        /\ seen[c].w = [op |-> "put", v |-> <<233>>]
        /\ ret[c] = [ResOk EXCEPT !.opt = <<(<<233>>)>>]

\* C10: a get of a key, served with no write to the key since a delete that
\* listed it succeeded, returns None.
C10_DeleteThenGet ==
    \A c \in Clients :
        Done(c, "get") /\ ret[c].tag # "ErrRpc" /\ seen[c].w.op = "delete" =>
            ret[c] = ResOk

\* a get has returned None after a delete of its key
C10_Witness ==
    \E c \in Clients :
        /\ Done(c, "get") /\ seen[c].w.op = "delete" /\ seen[c].pre = <<>>
        /\ ret[c] = ResOk

\* the entries of store st whose key has the bytes of prefix p as a prefix, as
\* (key, value) pairs of strings
UnderPrefix(st, p) ==
    {<<FromUtf8(x).s, FromUtf8(st[x]).s>> :
       x \in {y \in DOMAIN st : IsPrefix(AsBytes(p), y)}}

\* C7: get_prefix(p) returns exactly the entries whose key has p as a prefix
\* (the store of SpecPrefix is as the request found it: get_prefix is the only
\* call).
C7_GetPrefixExact ==
    \A c \in Clients :
        Done(c, "get_prefix") /\ ret[c].tag # "ErrRpc" =>
            ret[c] = [ResOk EXCEPT !.map = UnderPrefix(store, call[c].prefix)]

\* C7, for the prefixes that are not empty
C7_NonEmptyPrefix ==
    \A c \in Clients :
        Done(c, "get_prefix") /\ ret[c].tag # "ErrRpc" /\ call[c].prefix # <<>> =>
            ret[c] = [ResOk EXCEPT !.map = UnderPrefix(store, call[c].prefix)]

\* C8: a delete_prefix(p) that is served removes every entry whose key has p
\* as a prefix and leaves every other entry as it was.
C8_DeletePrefixExact ==
    [][\A c \in Clients :
          call[c].op = "delete_prefix" /\ Answered(c) /\ resp'[c].status = "ok" =>
              /\ DOMAIN store' = {x \in DOMAIN store :
                                    ~IsPrefix(AsBytes(call[c].prefix), x)}
              /\ \A x \in DOMAIN store' : store'[x] = store[x]]_vars

\* C8, for the prefixes that are not empty
C8_NonEmptyPrefix ==
    [][\A c \in Clients :
          /\ call[c].op = "delete_prefix" /\ Answered(c) /\ resp'[c].status = "ok"
          /\ call[c].prefix # <<>>
          => /\ DOMAIN store' = {x \in DOMAIN store :
                                   ~IsPrefix(AsBytes(call[c].prefix), x)}
             /\ \A x \in DOMAIN store' : store'[x] = store[x]]_vars

\* C9: the range of get_prefix(p) and delete_prefix(p) starts at p and ends at
\* p with its last byte incremented modulo 256 (at the empty end for the empty
\* p); when p has a last byte and it is not 0xFF, every key with prefix p (the
\* keys of up to MaxStrLen characters, p itself and p followed by any byte)
\* lies in the range.
C9_PrefixRange ==
    \A c \in Clients :
        call[c].op \in {"get_prefix", "delete_prefix"} /\ pc[c] = "req" =>
            LET p == AsBytes(call[c].prefix)
                e == req[c].range_end
            IN /\ req[c].key = p
               /\ Len(e) = Len(p)
               /\ \A i \in 1..(Len(p) - 1) : e[i] = p[i]
               /\ p # <<>> => e[Len(p)] = (p[Len(p)] + 1) % 256
               /\ (p # <<>> /\ p[Len(p)] # 255) =>
                     \A k \in {AsBytes(x) : x \in PStrings}
                              \cup {p} \cup {p \o <<b>> : b \in Byte} :
                         IsPrefix(p, k) => InRange(k, req[c].key, e)

\* the request of get_prefix("ÿ") is in flight: the range from C3 BF to C3 C0
C9_Witness ==
    \E c \in Clients :
        /\ pc[c] = "req" /\ call[c].op = "get_prefix"
        /\ call[c].prefix = <<255>>
        /\ req[c].key = <<195, 191>> /\ req[c].range_end = <<195, 192>>
        /\ InRange(<<195, 191, 97>>, req[c].key, req[c].range_end)

\* the number of batches of n keys: the least integer not below n / BatchSize
NumBatches(n) == (n + BatchSize - 1) \div BatchSize

\* the number of keys in batch j of n keys
BatchLen(n, j) == IF j < NumBatches(n) THEN BatchSize ELSE n - BatchSize * (j - 1)

\* C4: the j-th transaction of a bulk_put is unconditional and puts, in input
\* order, the keys at the positions BatchSize * (j - 1) + 1 onwards: BatchSize
\* of them, and in the last batch the rest; a bulk_put that returns Ok has sent
\* exactly NumBatches transactions.
C4_BulkBatches ==
    \A c \in Clients : call[c].op = "bulk_put" =>
        LET keys == call[c].keys n == Len(call[c].keys) IN
        /\ Len(log[c]) <= NumBatches(n)
        /\ \A j \in 1..Len(log[c]) :
              /\ log[c][j].rpc = "txn"
              /\ log[c][j].compare = <<>> /\ log[c][j].failure = <<>>
              /\ Len(log[c][j].success) = BatchLen(n, j)
              /\ \A i \in 1..Len(log[c][j].success) :
                    log[c][j].success[i]
                        = OpPut(AsBytes(keys[BatchSize * (j - 1) + i]), <<>>)
        /\ (Done(c, "bulk_put") /\ ret[c] = ResOk) => Len(log[c]) = NumBatches(n)

\* a bulk_put of 2500 keys has returned Ok after transactions of 1000, 1000
\* and 500 puts
C4_Witness ==
    \E c \in Clients :
        /\ Done(c, "bulk_put") /\ ret[c] = ResOk
        /\ Len(call[c].keys) = 2500
        /\ Len(log[c]) = 3
        /\ Len(log[c][1].success) = 1000
        /\ Len(log[c][2].success) = 1000
        /\ Len(log[c][3].success) = 500

\* C3: once the transaction of batch i of a bulk_put has failed, the keys of
\* the batches before i are in the store, no key of batch i or of a later
\* batch has been written by the call, the call sends no further transaction,
\* and it returns the error of the RPC.
C3_BulkFails ==
    [][\A c \in Clients : call[c].op = "bulk_put" /\ resp[c].status = "err" =>
          LET keys == call[c].keys
              i == Len(log[c])
          IN /\ \A p \in 1..(BatchSize * (i - 1)) :
                    Entry(store, AsBytes(keys[p])) = <<(<<>>)>>
             /\ \A p \in (BatchSize * (i - 1) + 1)..Len(keys) :
                    /\ AsBytes(keys[p]) \in DOMAIN lastw
                          => lastw[AsBytes(keys[p])].op # "bulk_put"
                    /\ Entry(store, AsBytes(keys[p])) # <<(<<>>)>>
             /\ log'[c] = log[c] /\ pc'[c] # "req"
             /\ pc[c] = "idle" => ret[c] = ResErrRpc
             /\ Returns(c) => ret'[c] = ResErrRpc]_vars

\* a bulk_put of 2500 keys has returned the error of its second transaction:
\* the first 1000 keys are in the store, the last 1500 are not
C3_Witness ==
    \E c \in Clients :
        /\ Done(c, "bulk_put") /\ ret[c] = ResErrRpc
        /\ Len(call[c].keys) = 2500
        /\ Len(log[c]) = 2
        /\ \A p \in 1..1000 : AsBytes(call[c].keys[p]) \in DOMAIN store
        /\ \A p \in 1001..2500 : AsBytes(call[c].keys[p]) \notin DOMAIN store

(***************************************************************************)
(* Idempotence of put and delete.                                          *)
(***************************************************************************)
\* the last write of key x was made by a call of operation op
LastWriteBy(x, op) == x \in DOMAIN lastw /\ lastw[x].op = op

\* C11: a put(k, v) served when the last write of k was a put(k, v), and a
\* delete([k]) served when the last write of k was a delete of k, leave the
\* store as the first one left it: nothing changes, k holds v after the put
\* and is absent after the delete; the second delete returns Ok.
C11_Idempotent ==
    [][\A c \in Clients :
        /\ (Answered(c) /\ resp'[c].status = "ok" /\ call[c].op = "put"
               /\ LastWriteBy(AsBytes(call[c].k), "put")
               /\ lastw[AsBytes(call[c].k)].v = call[c].v)
              => /\ store' = store
                 /\ Entry(store', AsBytes(call[c].k)) = <<AsBytes(call[c].v)>>
        /\ (Answered(c) /\ resp'[c].status = "ok" /\ call[c].op = "delete"
               /\ Len(call[c].keys) = 1
               /\ LastWriteBy(AsBytes(call[c].keys[1]), "delete"))
              => /\ store' = store
                 /\ AsBytes(call[c].keys[1]) \notin DOMAIN store'
        /\ (Returns(c) /\ resp[c].status = "ok" /\ call[c].op = "delete")
              => ret'[c] = ResOk]_vars

\* a delete of one key, served when the key had been deleted by the delete
\* before it and was absent, has returned Ok
C11_Witness ==
    \E c \in Clients :
        /\ Done(c, "delete") /\ Len(call[c].keys) = 1
        /\ seen[c].w.op = "delete" /\ seen[c].pre = <<>>
        /\ AsBytes(call[c].keys[1]) \notin DOMAIN store
        /\ ret[c] = ResOk

(***************************************************************************)
(* Failures are returned, never retried.                                   *)
(***************************************************************************)
\* C12: in every operation, the step that follows a failed RPC returns the
\* RPC's error to the caller and sends nothing, so that the failed request is
\* the last one the call has sent; the caller of the blocking client gets the
\* same error.
C12_NoRetry ==
    [][\A c \in Clients :
        /\ (pc[c] = "resp" /\ resp[c].status = "err" /\ pc'[c] # pc[c])
              => /\ pc'[c] = "idle"
                 /\ ret'[c] = ResErrRpc
                 /\ log'[c] = log[c] /\ req'[c] = req[c]
                 /\ Last(log'[c]) = req[c]
                 /\ sync[c].st = "blocked" =>
                        sync'[c] = [st |-> "returned", ret |-> ResErrRpc]]_vars

\* a bulk_put of three batches, called through the blocking client, has
\* returned the error of its second transaction and has sent two
C12_Witness ==
    /\ Done("c2", "bulk_put")
    /\ NumBatches(Len(call["c2"].keys)) = 3
    /\ Len(log["c2"]) = 2
    /\ resp["c2"].status = "err"
    /\ sync["c2"] = [st |-> "returned", ret |-> ResErrRpc]

(***************************************************************************)
(* The blocking client against the async one.                              *)
(***************************************************************************)
\* the requests the operation of the async client sends for call cl, in
\* order, as long as none fails
AsyncRequests(cl) ==
    IF cl.op = "put" THEN <<PutReq(cl.k, cl.v)>>
    ELSE IF cl.op = "bulk_put"
         THEN [j \in 1..Len(BulkChunks(cl.keys)) |-> BulkTxn(BulkChunks(cl.keys)[j])]
    ELSE IF cl.op = "get" THEN <<GetReq(cl.k)>>
    ELSE IF cl.op = "get_prefix" THEN <<GetPrefixReq(cl.prefix)>>
    ELSE IF cl.op = "delete" THEN <<DeleteTxn(cl.keys)>>
    ELSE IF cl.op = "delete_prefix" THEN <<DeletePrefixReq(cl.prefix)>>
    ELSE IF cl.op = "swap" THEN <<SwapTxn(cl.k, cl.old_v, cl.new_v)>>
    ELSE <<>>

\* what the operation of the async client returns for call cl after n
\* requests, the last answered by r
AsyncResult(cl, r, n) == IF n = 0 THEN ResOk ELSE Result(cl, r)

\* C13: a call through the blocking client sends the requests the async
\* operation sends for the same arguments, in the same order, and nothing
\* else; the calling thread is inside block_on exactly while the operation is
\* under way, and comes back with the very result the operation returned, the
\* one the async client makes of the same responses; the steps of the wrapper
\* change the store no more than those of the async client do (only the store
\* serving a request changes it).
C13_SyncAsAsync ==
    /\ [](\A c \in Clients :
            /\ Len(log[c]) <= Len(AsyncRequests(call[c]))
            /\ log[c] = SubSeq(AsyncRequests(call[c]), 1, Len(log[c]))
            /\ sync[c].st = "blocked" => pc[c] # "idle" /\ ret[c] = NoRes
            /\ sync[c].st = "returned" =>
                  /\ pc[c] = "idle"
                  /\ sync[c].ret = ret[c]
                  /\ ret[c] = AsyncResult(call[c], resp[c], Len(log[c]))
                  /\ (ret[c] = ResOk /\ call[c].op = "bulk_put") =>
                        Len(log[c]) = Len(AsyncRequests(call[c])))
    /\ [][\A c \in Clients : sync'[c] # sync[c] =>
            /\ store' = store
            /\ pc'[c] # pc[c] \/ call'[c] # call[c]]_vars

\* a get through the blocking client has come back with Some("\u00e9")
C13_Witness ==
    /\ Done("c2", "get")
    /\ sync["c2"] = [st |-> "returned", ret |-> [ResOk EXCEPT !.opt = <<(<<233>>)>>]]
    /\ log["c2"] = <<GetReq(call["c2"].k)>>

C15_OneInFlight ==
    [][\A c \in Clients :
        /\ log'[c] # log[c] =>
              /\ pc[c] # "req"
              /\ \/ log'[c] = <<>> /\ pc'[c] = "idle"
                 \/ /\ pc'[c] = "req"
                    /\ log'[c] = (IF pc[c] = "idle" THEN <<>> ELSE log[c])
                                    \o <<req'[c]>>
              /\ pc[c] = "resp" =>
                    /\ call'[c] = call[c] /\ call[c].op = "bulk_put"
                    /\ resp[c].status = "ok"
                    /\ Len(log[c]) < NumBatches(Len(call[c].keys))
                    /\ req'[c] = BulkTxn(SubSeq(call[c].keys,
                                     BatchSize * Len(log[c]) + 1,
                                     BatchSize * Len(log[c])
                                       + BatchLen(Len(call[c].keys), Len(log[c]) + 1)))
        /\ (pc[c] = "req" /\ pc'[c] # pc[c]) =>
              pc'[c] = "resp" /\ log'[c] = log[c] /\ req'[c] = req[c]
        /\ pc'[c] = "req" => req'[c] = Last(log'[c])]_vars

\* through the blocking client, the transaction of the second batch of a
\* bulk_put is in flight and the keys of the first batch are in the store
C15_Witness ==
    /\ call["c2"].op = "bulk_put" /\ pc["c2"] = "req"
    /\ sync["c2"].st = "blocked"
    /\ Len(log["c2"]) = 2 /\ req["c2"] = log["c2"][2]
    /\ \A i \in 1..BatchSize : AsBytes(call["c2"].keys[i]) \in DOMAIN store
    /\ AsBytes(call["c2"].keys[BatchSize + 1]) \notin DOMAIN store

(***************************************************************************)
(* What the operations leave unchanged.                                    *)
(***************************************************************************)
\* the step is one of client c's call of operation op: the call, the answer
\* to its request, or its return
StepOf(c, op) ==
    call'[c].op = op /\ (pc'[c] # pc[c] \/ call'[c] # call[c] \/ ret'[c] # ret[c])

\* C16: no step of a get or of a get_prefix (the call, the request served or
\* failed, the return) changes the store; and a client carries nothing from
\* one call to the next: whatever calls came before, the requests of a call
\* are those its arguments give and its result is made of the response alone.
C16_ReadsChangeNothing ==
    /\ [][\A c \in Clients :
            StepOf(c, "get") \/ StepOf(c, "get_prefix") => store' = store]_vars
    /\ [](\A c \in Clients :
            /\ Len(log[c]) <= Len(AsyncRequests(call[c]))
            /\ log[c] = SubSeq(AsyncRequests(call[c]), 1, Len(log[c]))
            /\ (pc[c] = "idle" /\ call[c] # NoCall) =>
                  ret[c] = AsyncResult(call[c], resp[c], Len(log[c])))

\* a get_prefix has returned the two entries of the store, which still holds
\* them
C16_Witness ==
    \E c \in Clients :
        /\ Done(c, "get_prefix") /\ ret[c].tag = "Ok"
        /\ Cardinality(ret[c].map) = 2
        /\ {FromUtf8(x).s : x \in DOMAIN store} = {kv[1] : kv \in ret[c].map}
        /\ \A kv \in ret[c].map : store[AsBytes(kv[1])] = AsBytes(kv[2])

(***************************************************************************)
(* Two swaps of one key.                                                   *)
(***************************************************************************)
\* both clients have returned from swaps of one key and one old_v, each to a
\* new_v other than old_v
TwoSwapsDone ==
    /\ Done("c1", "swap") /\ Done("c2", "swap")
    /\ call["c1"].k = call["c2"].k
    /\ call["c1"].old_v = call["c2"].old_v
    /\ call["c1"].new_v # call["c1"].old_v
    /\ call["c2"].new_v # call["c2"].old_v

\* the store served the swap of client c before any write and the key held
\* the old_v of the swap
FoundOld(c) ==
    seen[c].w = NoWrite /\ seen[c].pre = <<AsBytes(call[c].old_v)>>

\* client w has won and client l has lost
Won(w, l) ==
    /\ ret[w] = ResOk
    /\ ret[l] = ResErrSwap(call[l].k)
    /\ Entry(store, AsBytes(call[w].k)) = <<AsBytes(call[w].new_v)>>

\* C17: of two swaps of one key from one old_v to values other than it, both
\* evaluated by the store, the first of them on the key holding old_v, exactly
\* one has returned Ok and the other Error::Swap of the key, and the key holds
\* the new_v of the one that returned Ok; and whatever the RPCs did, the two
\* have not both returned Ok.
C17_SwapExcludes ==
    TwoSwapsDone =>
        /\ ~(ret["c1"] = ResOk /\ ret["c2"] = ResOk)
        /\ (/\ ret["c1"].tag # "ErrRpc" /\ ret["c2"].tag # "ErrRpc"
            /\ FoundOld("c1") \/ FoundOld("c2"))
              => Won("c1", "c2") \/ Won("c2", "c1")

\* the swap through the blocking client was evaluated first and has won, the
\* swap of the async client to another value has returned Error::Swap
C17_Witness ==
    /\ TwoSwapsDone
    /\ call["c1"].new_v # call["c2"].new_v
    /\ FoundOld("c2") /\ seen["c1"].w.op = "swap"
    /\ Won("c2", "c1")
    /\ sync["c2"].ret = ResOk

(***************************************************************************)
(* What others see of a bulk_put.                                          *)
(***************************************************************************)
\* the positions in key list keys whose key holds the empty value in the store
HoldEmpty(keys) ==
    {i \in 1..Len(keys) : Entry(store, AsBytes(keys[i])) = <<(<<>>)>>}

\* the positions of the first j batches of n keys
FirstBatches(n, j) == 1..Min(BatchSize * j, n)

\* C18: in every state of the store during and after a bulk_put (of distinct
\* keys, none of which held the empty value before), the keys of the call that
\* hold the empty value are those of its first j batches, j being the number
\* of its transactions the store has served: never a part of a batch.
C18_BatchBoundaries ==
    \A c \in Clients : call[c].op = "bulk_put" =>
        LET n == Len(call[c].keys)
            j == IF pc[c] = "req" \/ resp[c].status = "err"
                 THEN Len(log[c]) - 1 ELSE Len(log[c])
        IN /\ j \in 0..NumBatches(n)
           /\ HoldEmpty(call[c].keys) = FirstBatches(n, j)

\* the first two batches of a bulk_put of 2500 keys are written, the third,
\* whose transaction is in flight, is not
C18_Witness ==
    \E c \in Clients :
        /\ call[c].op = "bulk_put" /\ Len(call[c].keys) = 2500
        /\ pc[c] = "req" /\ Len(log[c]) = 3
        /\ HoldEmpty(call[c].keys) = 1..2000

(***************************************************************************)
(* The value bulk_put writes.                                              *)
(***************************************************************************)
\* C19: the step that serves a transaction of a bulk_put leaves the empty
\* value at every key of the chunk, whatever the key held (the value of a put
\* among others); a get of a key, served with no write to the key since a
\* bulk_put wrote it, returns Some(""); and a bulk_put of no key returns Ok in
\* the step of the call, with no request sent and the store as it was.
C19_BulkWritesEmpty ==
    /\ [][\A c \in Clients :
            /\ (Answered(c) /\ resp'[c].status = "ok" /\ call[c].op = "bulk_put")
                  => \A x \in KeySet(BulkChunks(call[c].keys)[Len(log[c])]) :
                        Entry(store', x) = <<(<<>>)>>
            /\ (call'[c] # call[c] /\ call'[c].op = "bulk_put"
                   /\ call'[c].keys = <<>>)
                  => /\ pc'[c] = "idle" /\ ret'[c] = ResOk
                     /\ log'[c] = <<>> /\ req'[c] = NoReq
                     /\ store' = store]_vars
    /\ [](\A c \in Clients :
            /\ (Done(c, "get") /\ ret[c].tag # "ErrRpc"
                   /\ seen[c].w.op = "bulk_put")
                  => ret[c] = [ResOk EXCEPT !.opt = <<(<<>>)>>]
            /\ (Done(c, "bulk_put") /\ call[c].keys = <<>>)
                  => ret[c] = ResOk /\ log[c] = <<>>)

\* the transaction of a bulk_put has been served on a key that held "\u00e9",
\* the value of the put that wrote it last, and the key holds "" now
C19_Witness ==
    \E c \in Clients :
        /\ call[c].op = "bulk_put" /\ pc[c] = "resp" /\ resp[c].status = "ok"
        /\ seen[c].w = [op |-> "put", v |-> <<233>>]
        /\ seen[c].pre = <<AsBytes(<<233>>)>>
        /\ Entry(store, AsBytes(call[c].keys[1])) = <<(<<>>)>>

====
